---- MODULE Spec2Model ----
(***************************************************************************)
(* Envelope-encryption key management of mongodb-enc-poc:                  *)
(*   utils.GetProviderName, utils.LoadOrCreateMasterKey, utils.GetDek      *)
(*   (package utils) and decryptBinaryValue (cmd/qe/main.go).              *)
(*                                                                         *)
(* Strings are sequences of one-character strings, byte slices are         *)
(* sequences of integers in 0..255.  The key vault and the explicit        *)
(* encryption engine of the MongoDB driver are external collaborators;     *)
(* they are modelled by the contract the code relies on.                   *)
(***************************************************************************)
EXTENDS Integers, Sequences, FiniteSets, TLC

\* ------------------------------------------------------------------ bounds
\* Longest generated tenant identifier (over TenantChars).
MaxIdLen == 3
\* Number of distinct outcomes of crypto/rand considered for a master key.
NumRandKeys == 2

\* --------------------------------------------------------- program constants
\* const keySize = 96
keySize == 96
\* const masterKeyDir = "keys"
masterKeyDir == <<"k", "e", "y", "s">>

\* ------------------------------------------------------------------ strings
Min(a, b) == IF a < b THEN a ELSE b

\* strings.LastIndex(s, "/") scanning from index i (0-based) downwards;
\* -1 when there is no "/" at or before i.
RECURSIVE LastIndexFrom(_, _)
LastIndexFrom(s, i) ==
    IF i < 0 THEN -1
    ELSE IF s[i + 1] = "/" THEN i
    ELSE LastIndexFrom(s, i - 1)

LastIndex(s) == LastIndexFrom(s, Len(s) - 1)

\* s[lo:], lo counted from 0
SliceFrom(s, lo) == SubSeq(s, lo + 1, Len(s))

LocalPrefix == <<"l", "o", "c", "a", "l", ":">>

\* The alternative a plausible slip produces: the slice keeps the separator
\* (devOrgDON[lastSlashIndex:]).
GetProviderName_KeepsSeparator(devOrgDON) ==
    LET lastSlashIndex == LastIndex(devOrgDON) IN
    IF lastSlashIndex > 0
    THEN [name |-> LocalPrefix \o SliceFrom(devOrgDON, lastSlashIndex), err |-> "nil"]
    ELSE [name |-> <<>>, err |-> "invalid Dev org DON format"]

\* The alternative a plausible slip produces: cut at the first separator
\* instead of the last one.
RECURSIVE FirstIndexFrom(_, _)
FirstIndexFrom(s, i) ==
    IF i >= Len(s) THEN -1
    ELSE IF s[i + 1] = "/" THEN i
    ELSE FirstIndexFrom(s, i + 1)

GetProviderName_FirstSeparator(devOrgDON) ==
    LET lastSlashIndex == LastIndex(devOrgDON) IN
    IF lastSlashIndex > 0
    THEN [name |-> LocalPrefix \o SliceFrom(devOrgDON, FirstIndexFrom(devOrgDON, 1) + 1),
          err |-> "nil"]
    ELSE [name |-> <<>>, err |-> "invalid Dev org DON format"]

\* func GetProviderName(devOrgDON string) (string, error)
GetProviderName(devOrgDON) ==
    LET lastSlashIndex == LastIndex(devOrgDON) IN
    IF lastSlashIndex > 0
    THEN [name |-> LocalPrefix \o SliceFrom(devOrgDON, lastSlashIndex + 1), err |-> "nil"]
    ELSE [name |-> <<>>, err |-> "invalid Dev org DON format"]

\* "don:identity:dvrv-us-1:devo/10" and ".../100", the identifiers of main().
DonPrefix ==
    <<"d","o","n",":","i","d","e","n","t","i","t","y",":",
      "d","v","r","v","-","u","s","-","1",":","d","e","v","o">>
Don10 == DonPrefix \o <<"/", "1", "0">>
Don100 == DonPrefix \o <<"/", "1", "0", "0">>

TenantChars == {"/", "a", "b"}

RECURSIVE SeqsUpTo(_, _)
SeqsUpTo(S, n) ==
    IF n = 0 THEN {<<>>}
    ELSE LET shorter == SeqsUpTo(S, n - 1) IN
         shorter \cup {Append(s, c) : s \in shorter, c \in S}

NoSeparatorHere == <<"n","o","-","s","e","p","a","r","a","t","o","r","-","h","e","r","e">>
AbcSlash == <<"a", "b", "c", "/">>

\* identifiers that differ before the last separator only, and one with
\* several separators
UsDevo10 == <<"u", "s", ":", "d", "e", "v", "o", "/", "1", "0">>
EuDevo10 == <<"e", "u", ":", "d", "e", "v", "o", "/", "1", "0">>
TwoSeparators == <<"a", "/", "b", "/", "1", "0">>

TenantIds ==
    SeqsUpTo(TenantChars, MaxIdLen)
        \cup {Don10, Don100, NoSeparatorHere, AbcSlash, UsDevo10, EuDevo10, TwoSeparators}

\* ------------------------------------------------------- master key store
\* The provider names main() works with.
Providers == {GetProviderName(Don10).name, GetProviderName(Don100).name}

MasterKeySuffix == <<"_","m","a","s","t","e","r","_","k","e","y",".","b","i","n">>

\* filepath.Join(masterKeyDir, fmt.Sprintf("%s_master_key.bin", providerName))
MasterKeyFile(providerName) == masterKeyDir \o <<"/">> \o providerName \o MasterKeySuffix

\* The outcomes of rand.Read(key) that are told apart: keySize bytes each.
RandKey(b) == [i \in 1..keySize |-> (b + i) % 256]
RandKeys == {RandKey(b) : b \in 0..(NumRandKeys - 1)}

\* Number of bytes a failing file.Write may have put on disk.
PartialSizes == {0, keySize - 1}

\* What the operating system answers during one call: at most one failing
\* system call, the bytes crypto/rand delivers, the length of a short write.
FileFaults == {"none", "mkdir", "stat", "rand", "create", "write", "open", "read"}
FileIO ==
    {io \in [fault : FileFaults, rnd : RandKeys, wn : PartialSizes] :
        io.fault # "write" => io.wn = 0}

\* The answers that make a difference to a call that finds the key file
\* present (or absent): a fault of a system call the call does not make is
\* left out.
FileIOFor(fs, providerName) ==
    {io \in FileIO :
        IF MasterKeyFile(providerName) \in DOMAIN fs
        THEN io.fault \in {"none", "mkdir", "stat", "open", "read"}
        ELSE io.fault \in {"none", "mkdir", "stat", "rand", "create", "write"}}

\* key := make([]byte, keySize)
ZeroKey == [i \in 1..keySize |-> 0]

\* a file system with the file at path holding content
WithFile(fs, path, content) ==
    [q \in (DOMAIN fs) \cup {path} |-> IF q = path THEN content ELSE fs[q]]

\* The alternative a plausible slip produces: the bytes are read into a
\* buffer other than the one returned.
FileRead_IntoCopy(buf, content, fails) ==
    IF fails THEN [n |-> 0, err |-> "EIO", buf |-> buf]
    ELSE IF Len(content) = 0 THEN [n |-> 0, err |-> "EOF", buf |-> buf]
    ELSE [n |-> Min(Len(content), Len(buf)), err |-> "nil", buf |-> buf]

\* n, err := file.Read(buf) on a regular file holding content, read from
\* offset 0: at most len(buf) bytes, (0, io.EOF) at end of file.
FileRead(buf, content, fails) ==
    IF fails THEN [n |-> 0, err |-> "EIO", buf |-> buf]
    ELSE IF Len(content) = 0 THEN [n |-> 0, err |-> "EOF", buf |-> buf]
    ELSE LET n == Min(Len(content), Len(buf)) IN
         [n |-> n, err |-> "nil",
          buf |-> SubSeq(content, 1, n) \o SubSeq(buf, n + 1, Len(buf))]

KeyFailure(msg, fs) == [key |-> <<>>, err |-> msg, fs |-> fs]

\* The alternative a plausible slip produces: the existence check is lost
\* and every call generates and stores a new key.
LoadOrCreateMasterKey_Regenerates(fs, providerName, io) ==
    LET filePath == MasterKeyFile(providerName) IN
    IF io.fault # "none" THEN KeyFailure("failed to create master key file", fs)
    ELSE [key |-> io.rnd, err |-> "nil", fs |-> WithFile(fs, filePath, io.rnd)]

\* func LoadOrCreateMasterKey(providerName string) ([]byte, error)
\* on the file system fs; the result carries the file system it leaves.
LoadOrCreateMasterKey(fs, providerName, io) ==
    LET filePath == MasterKeyFile(providerName) IN
    IF io.fault = "mkdir"
    THEN KeyFailure("failed to create master key directory", fs)
    ELSE IF io.fault # "stat" /\ filePath \notin DOMAIN fs
    THEN \* os.IsNotExist(err): generate a new key and save it
         IF io.fault = "rand"
         THEN KeyFailure("failed to generate new master key", fs)
         ELSE IF io.fault = "create"
         THEN KeyFailure("failed to create master key file", fs)
         ELSE IF io.fault = "write"
         THEN KeyFailure("failed to write master key to file",
                         WithFile(fs, filePath, SubSeq(io.rnd, 1, io.wn)))
         ELSE [key |-> io.rnd, err |-> "nil", fs |-> WithFile(fs, filePath, io.rnd)]
    ELSE IF io.fault = "stat"
    THEN KeyFailure("error checking master key file status", fs)
    ELSE \* the file exists: read the key from it
         IF io.fault = "open"
         THEN KeyFailure("failed to open master key file", fs)
         ELSE LET rd == FileRead(ZeroKey, fs[filePath], io.fault = "read") IN
              IF rd.err # "nil"
              THEN KeyFailure("failed to read master key from file", fs)
              ELSE IF rd.n # keySize
              THEN KeyFailure("master key file has incorrect size", fs)
              ELSE [key |-> rd.buf, err |-> "nil", fs |-> fs]

\* ------------------------------------------------------------- key vault
\* const _keyVaultNamespace = "csfle_keyvault.datakeys" (second program of
\* main.go) and "qe_keyvault.datakeys" (first program).
KeyVaultNamespace == "csfle_keyvault.datakeys"
QeKeyVaultNamespace == "qe_keyvault.datakeys"
Namespaces == {KeyVaultNamespace, QeKeyVaultNamespace}

MongoUri == "mongodb://keyvault"
Uris == {"", MongoUri}

\* keyAltName := fmt.Sprintf("dek-%s", providerName)
KeyAltName(providerName) == <<"d", "e", "k", "-">> \o providerName

\* A key vault document: _id, keyAltNames, the KMS provider that wrapped the
\* key material and the wrapped material (readable under the master key
\* that wrapped it only).
Wrap(masterKey, material) == [under |-> masterKey, material |-> material]
Unwrap(masterKey, wrapped) ==
    IF masterKey = wrapped.under THEN <<wrapped.material>> ELSE <<>>

AllDocs(vault) == UNION {vault[ns] : ns \in DOMAIN vault}

\* a new random UUID: an identifier no document of any vault carries
FreshId(vault) ==
    LET used == {d.id : d \in AllDocs(vault)} IN
    IF used = {} THEN 1 ELSE 1 + (CHOOSE m \in used : \A x \in used : x <= m)

\* clientEnc.GetKeyByAltName(ctx, keyAltName): the documents the vault may
\* answer with, as sequences of at most one document.
Answers(vault, ns, keyAltName) ==
    LET matching == {d \in vault[ns] : keyAltName \in d.keyAltNames} IN
    IF matching = {} THEN {<<>>} ELSE {<<d>> : d \in matching}

\* clientEnc.CreateDataKey(ctx, providerName, opts) with the KMS providers
\* kmsProviders: the document inserted into the vault.
NewDataKey(vault, kmsProviders, providerName, keyAltName) ==
    [id |-> FreshId(vault), idType |-> "binary", keyAltNames |-> {keyAltName},
     provider |-> providerName,
     wrapped |-> Wrap(kmsProviders[providerName].key, FreshId(vault))]

VaultFaults == {"none", "connect", "clientenc", "lookup", "create", "createLost"}

DekFailure(msg, fs, vault, lookup, requested) ==
    [dataKey |-> <<>>, kmsProviders |-> <<>>, err |-> msg, fs |-> fs, vault |-> vault,
     lookup |-> lookup, createRequested |-> requested]

\* The alternative a plausible slip produces: every lookup error, not only
\* mongo.ErrNoDocuments, falls through to the creation of a data key.
GetDek_CreatesOnAnyError(fs, vault, uri, providerName, keyVaultNamespace, io, vfault, answer) ==
    LET mk == LoadOrCreateMasterKey(fs, providerName, io)
        kmsProviders == (providerName :> [key |-> mk.key])
        keyAltName == KeyAltName(providerName)
        doc == NewDataKey(vault, kmsProviders, providerName, keyAltName)
    IN
    IF uri = "" \/ mk.err # "nil" \/ vfault \in {"connect", "clientenc", "create", "createLost"}
    THEN DekFailure("failed", mk.fs, vault, "none", FALSE)
    ELSE IF vfault = "lookup" \/ answer = <<>>
    THEN [dataKey |-> <<doc.id>>, kmsProviders |-> kmsProviders, err |-> "nil",
          fs |-> mk.fs,
          vault |-> [vault EXCEPT ![keyVaultNamespace] = @ \cup {doc}],
          lookup |-> IF vfault = "lookup" THEN "error" ELSE "notfound",
          createRequested |-> TRUE]
    ELSE [dataKey |-> <<answer[1].id>>, kmsProviders |-> kmsProviders, err |-> "nil",
          fs |-> mk.fs, vault |-> vault, lookup |-> "found", createRequested |-> FALSE]

\* The alternative a plausible slip produces: the lookup result is ignored
\* and a data key is created on every call.
GetDek_AlwaysCreates(fs, vault, uri, providerName, keyVaultNamespace, io, vfault, answer) ==
    LET mk == LoadOrCreateMasterKey(fs, providerName, io)
        kmsProviders == (providerName :> [key |-> mk.key])
        keyAltName == KeyAltName(providerName)
        doc == NewDataKey(vault, kmsProviders, providerName, keyAltName)
    IN
    IF uri = "" \/ mk.err # "nil" \/ vfault # "none"
    THEN DekFailure("failed", mk.fs, vault, "none", FALSE)
    ELSE [dataKey |-> <<doc.id>>, kmsProviders |-> kmsProviders, err |-> "nil",
          fs |-> mk.fs,
          vault |-> [vault EXCEPT ![keyVaultNamespace] = @ \cup {doc}],
          lookup |-> "notfound", createRequested |-> TRUE]

\* func GetDek(ctx, providerName, keyVaultNamespace)
\*     (dataKey *primitive.Binary, kmsProviders map[...], err error)
\* io is what the file system answers, vfault the failing vault interaction
\* (if any), answer what GetKeyByAltName finds.
GetDek(fs, vault, uri, providerName, keyVaultNamespace, io, vfault, answer) ==
    IF uri = ""
    THEN DekFailure("MONGODB_URI environment variable is not set", fs, vault, "none", FALSE)
    ELSE
    LET mk == LoadOrCreateMasterKey(fs, providerName, io) IN
    IF mk.err # "nil"
    THEN DekFailure("failed to load or create master key", mk.fs, vault, "none", FALSE)
    ELSE
    LET kmsProviders == (providerName :> [key |-> mk.key])
        keyAltName == KeyAltName(providerName)
    IN
    IF vfault = "connect"
    THEN DekFailure("keyvault client connect error", mk.fs, vault, "none", FALSE)
    ELSE IF vfault = "clientenc"
    THEN DekFailure("failed to create client encryption", mk.fs, vault, "none", FALSE)
    ELSE IF vfault = "lookup"
    THEN \* err != nil and not mongo.ErrNoDocuments
         DekFailure("failed to decode DEK lookup result", mk.fs, vault, "error", FALSE)
    ELSE IF answer = <<>>
    THEN \* errors.Is(err, mongo.ErrNoDocuments)
         LET doc == NewDataKey(vault, kmsProviders, providerName, keyAltName)
             inserted == [vault EXCEPT ![keyVaultNamespace] = @ \cup {doc}]
         IN
         IF vfault = "create"
         THEN DekFailure("failed to create DEK", mk.fs, vault, "notfound", TRUE)
         ELSE IF vfault = "createLost"
         THEN \* the insert was applied, its acknowledgement was lost
              DekFailure("failed to create DEK", mk.fs, inserted, "notfound", TRUE)
         ELSE [dataKey |-> <<doc.id>>, kmsProviders |-> kmsProviders, err |-> "nil",
               fs |-> mk.fs, vault |-> inserted,
               lookup |-> "notfound", createRequested |-> TRUE]
    ELSE LET dekDoc == answer[1] IN
         IF dekDoc.idType = "missing"
         THEN DekFailure("DEK document missing _id field", mk.fs, vault, "found", FALSE)
         ELSE IF dekDoc.idType # "binary"
         THEN DekFailure("DEK _id field is not of type primitive.Binary",
                         mk.fs, vault, "found", FALSE)
         ELSE [dataKey |-> <<dekDoc.id>>, kmsProviders |-> kmsProviders, err |-> "nil",
               fs |-> mk.fs, vault |-> vault,
               lookup |-> "found", createRequested |-> FALSE]

\* ------------------------------------------------- explicit en/decryption
\* The values the demonstration encrypts (social security numbers).
Plaintexts == {"987-65-4320", "123-45-6789"}

\* AEAD under the key material of a data key: opens under that material only.
Seal(material, v) == <<material, v>>
Open(material, sealed) == IF sealed[1] = material THEN <<sealed[2]>> ELSE <<>>

\* primitive.Binary: Data is empty, or the identifier of the data key
\* followed by the sealed value.
Binary(data) == [Subtype |-> 6, Data |-> data]
EmptyBinary == Binary(<<>>)

\* The key material of the data key keyId as the encryption engine obtains
\* it from the vault at keyVaultNamespace with the KMS providers given.
KeyMaterial(vault, keyVaultNamespace, providers, keyId) ==
    LET docs == {d \in vault[keyVaultNamespace] : d.id = keyId} IN
    IF docs = {} THEN <<>>
    ELSE LET d == CHOOSE d \in docs : TRUE IN
         IF d.provider \notin DOMAIN providers THEN <<>>
         ELSE Unwrap(providers[d.provider].key, d.wrapped)

\* Automatic encryption of the ssn field by the client of NewEncClient(ctx,
\* _keyVaultNamespace, getSchemaMap(*dek), kmsProviders, false) on insertUser.
EncryptField(vault, kmsProviders, dek, v, fails) ==
    LET material == KeyMaterial(vault, KeyVaultNamespace, kmsProviders, dek[1]) IN
    IF fails \/ material = <<>>
    THEN [bin |-> EmptyBinary, err |-> "Insert failed"]
    ELSE [bin |-> Binary(<<dek[1]>> \o Seal(material[1], v)), err |-> "nil"]

DecryptFaults == {"none", "clientenc", "decrypt"}

DecryptFailure(msg, effects) == [value |-> <<>>, err |-> msg, effects |-> effects]

\* The alternative a plausible slip produces: the length check is missing.
decryptBinaryValue_NoEmptyCheck(vault, providers, encryptedValue, dfault) ==
    IF dfault = "clientenc"
    THEN DecryptFailure("failed to create client encryption", {"NewClientEncryption"})
    ELSE DecryptFailure("failed to explicitly decrypt the value",
                        {"NewClientEncryption", "Decrypt"})

\* func decryptBinaryValue(ctx, keyVaultClient, providers, encryptedValue)
\* effects lists the vault/KMS interactions the call went through.
decryptBinaryValue(vault, providers, encryptedValue, dfault) ==
    IF Len(encryptedValue.Data) = 0
    THEN DecryptFailure("encrypted value is empty or nil", {})
    ELSE IF dfault = "clientenc"
    THEN DecryptFailure("failed to create client encryption", {"NewClientEncryption"})
    ELSE
    LET material == KeyMaterial(vault, KeyVaultNamespace, providers, encryptedValue.Data[1])
        opened == IF material = <<>> THEN <<>>
                  ELSE Open(material[1], Tail(encryptedValue.Data))
    IN
    IF dfault = "decrypt" \/ opened = <<>>
    THEN DecryptFailure("failed to explicitly decrypt the value",
                        {"NewClientEncryption", "Decrypt"})
    ELSE [value |-> opened, err |-> "nil", effects |-> {"NewClientEncryption", "Decrypt"}]

\* ---------------------------------------------------------------- variables
VARIABLES
    lastResolve,   \* outcome of the latest GetProviderName call
    prevResolve,   \* outcome of the call before it
    files,         \* the files below masterKeyDir: path -> content
    vault,         \* key vault namespace -> set of data key documents
    uri,           \* os.Getenv("MONGODB_URI")
    session,       \* dek, kmsProviders of main(): the latest successful GetDek
    stored,        \* the encrypted ssn of the inserted user document
    ret,           \* the latest call: its arguments, environment and results
    keyHistory,    \* per provider: what the successful LoadOrCreateMasterKey
                   \* calls of main() found and returned
    dekHistory,    \* per namespace and provider: the identifiers successful
                   \* sequential GetDek calls returned
    callers,       \* concurrent callers of GetDek: where each is in the call,
                   \* its local key, and the dek, kmsProviders it holds
    overwritten    \* os.Create has truncated a key file that was present

vars == <<lastResolve, prevResolve, files, vault, uri, session, stored, ret,
          keyHistory, dekHistory, callers, overwritten>>

resolveVars == <<lastResolve, prevResolve>>
concVars == <<callers, overwritten>>
storeVars == <<files, vault, uri, session, stored, ret, keyHistory, dekHistory, concVars>>

NoResolve == [called |-> FALSE, tenant |-> <<>>, name |-> <<>>, err |-> "nil"]

NoRet ==
    [op |-> "none", caller |-> "", provider |-> <<>>, ns |-> "", fault |-> "none",
     again |-> FALSE,
     key |-> <<>>, dataKey |-> <<>>, kmsProviders |-> <<>>, err |-> "nil",
     lookup |-> "none", createRequested |-> FALSE,
     input |-> EmptyBinary, plain |-> "", effects |-> {}, value |-> <<>>]

NoSession == [ok |-> FALSE, provider |-> <<>>, ns |-> "", dataKey |-> <<>>, kmsProviders |-> <<>>]
NoStored == [ok |-> FALSE, by |-> "", bin |-> EmptyBinary, plain |-> "", provider |-> <<>>]

\* The processes that use the key store and the vault at the same time.
Callers == {"A", "B"}
NoCall == [pc |-> "idle", key |-> <<>>, dataKey |-> <<>>, kmsProviders |-> <<>>]

\* Sizes of the key artifacts found on disk at start: an empty one, truncated
\* ones, a complete one, an overlong one.
ArtifactSizes == {0, 1, keySize - 1, keySize, keySize + 1}
InitialArtifacts == {SubSeq(RandKey(0) \o <<255>>, 1, n) : n \in ArtifactSizes}
Paths == {MasterKeyFile(p) : p \in Providers}

\* nothing called yet
Idle ==
    /\ lastResolve = NoResolve
    /\ prevResolve = NoResolve
    /\ vault = [ns \in Namespaces |-> {}]
    /\ session = NoSession
    /\ stored = NoStored
    /\ ret = NoRet
    /\ keyHistory = [p \in Providers |-> [created |-> FALSE, reloaded |-> FALSE, keys |-> {}]]
    /\ dekHistory = [k \in Namespaces \X Providers |-> {}]
    /\ callers = [c \in Callers |-> NoCall]
    /\ overwritten = FALSE

\* an empty key directory and an empty vault; MONGODB_URI set or not
Init ==
    /\ Idle
    /\ files = <<>>
    /\ uri \in Uris

\* a key directory that holds artifacts of earlier runs
InitKeys ==
    /\ Idle
    /\ files \in UNION {[D -> InitialArtifacts] : D \in SUBSET Paths}
    /\ uri = MongoUri

InitResolve ==
    /\ Idle
    /\ files = <<>>
    /\ uri = MongoUri

\* ------------------------------------------------------------------ actions
\* one call GetProviderName(t)
ResolveProvider(t) ==
    LET r == GetProviderName(t) IN
    /\ prevResolve' = lastResolve
    /\ lastResolve' = [called |-> TRUE, tenant |-> t, name |-> r.name, err |-> r.err]
    /\ UNCHANGED storeVars

\* the record of a successful master key load in keyHistory
NoteKey(h, p, existed, r) ==
    IF r.err # "nil" THEN h
    ELSE [h EXCEPT ![p] = [created |-> @.created \/ ~existed,
                           reloaded |-> @.reloaded \/ existed,
                           keys |-> @.keys \cup {r.key}]]

\* one call LoadOrCreateMasterKey(p), as main() of the first program makes it
LoadOrCreateMasterKeyCall(p) ==
    \E io \in FileIOFor(files, p) :
        LET r == LoadOrCreateMasterKey(files, p, io) IN
        /\ files' = r.fs
        /\ ret' = [NoRet EXCEPT !.op = "LoadOrCreateMasterKey", !.provider = p,
                                !.fault = io.fault, !.key = r.key, !.err = r.err]
        /\ keyHistory' = NoteKey(keyHistory, p, MasterKeyFile(p) \in DOMAIN files, r)
        /\ UNCHANGED <<vault, uri, session, stored, dekHistory, resolveVars, concVars>>

\* one call GetDek(ctx, p, ns)
GetDekCall(p, ns) ==
    \E io \in FileIOFor(files, p), vfault \in VaultFaults, answer \in Answers(vault, ns, KeyAltName(p)) :
        \* a failing file operation ends the call before the vault is reached
        /\ io.fault # "none" => vfault = "none"
        /\ LET r == GetDek(files, vault, uri, p, ns, io, vfault, answer) IN
           /\ files' = r.fs
           /\ vault' = r.vault
           /\ ret' = [NoRet EXCEPT !.op = "GetDek", !.provider = p, !.ns = ns,
                                   !.fault = vfault, !.again = dekHistory[<<ns, p>>] # {},
                                   !.dataKey = r.dataKey, !.kmsProviders = r.kmsProviders,
                                   !.err = r.err, !.lookup = r.lookup,
                                   !.createRequested = r.createRequested]
           /\ session' = IF r.err = "nil"
                         THEN [ok |-> TRUE, provider |-> p, ns |-> ns,
                               dataKey |-> r.dataKey, kmsProviders |-> r.kmsProviders]
                         ELSE session
           /\ dekHistory' = IF r.err # "nil" THEN dekHistory
                            ELSE [dekHistory EXCEPT ![<<ns, p>>] = @ \cup {r.dataKey[1]}]
           /\ UNCHANGED <<uri, stored, keyHistory, resolveVars, concVars>>

\* insertUser through the client of NewEncClient(ctx, _keyVaultNamespace,
\* getSchemaMap(*dek), kmsProviders, false): the ssn is stored encrypted
EncryptValue(v) ==
    /\ session.ok
    /\ \E fails \in BOOLEAN :
        LET r == EncryptField(vault, session.kmsProviders, session.dataKey, v, fails) IN
        /\ stored' = IF r.err = "nil"
                     THEN [ok |-> TRUE, by |-> "", bin |-> r.bin, plain |-> v,
                           provider |-> session.provider]
                     ELSE stored
        /\ ret' = [NoRet EXCEPT !.op = "insertUser", !.provider = session.provider,
                                !.ns = session.ns, !.plain = v, !.err = r.err]
    /\ UNCHANGED <<files, vault, uri, session, keyHistory, dekHistory, resolveVars, concVars>>

\* one call decryptBinaryValue(ctx, client, kmsProviders, encryptedValue)
DecryptBinaryValueCall(encryptedValue) ==
    /\ session.ok
    /\ \E dfault \in DecryptFaults :
        LET r == decryptBinaryValue(vault, session.kmsProviders, encryptedValue, dfault) IN
        ret' = [NoRet EXCEPT !.op = "decryptBinaryValue", !.provider = session.provider,
                             !.ns = session.ns, !.kmsProviders = session.kmsProviders,
                             !.fault = dfault, !.input = encryptedValue,
                             !.plain = IF encryptedValue = stored.bin /\ stored.ok
                                       THEN stored.plain ELSE "",
                             !.err = r.err, !.effects = r.effects, !.value = r.value]
    /\ UNCHANGED <<files, vault, uri, session, stored, keyHistory, dekHistory, resolveVars,
                   concVars>>

NextResolve == \E t \in TenantIds : ResolveProvider(t)

NextKeys == \E p \in Providers : LoadOrCreateMasterKeyCall(p)

\* the provider main() of the second program registers a data key for
VaultProviders == {GetProviderName(Don100).name}

Next ==
    \/ \E p \in VaultProviders, ns \in Namespaces : GetDekCall(p, ns)
    \/ \E v \in Plaintexts : EncryptValue(v)
    \/ \E b \in {EmptyBinary, stored.bin} : DecryptBinaryValueCall(b)

\* Sequential use of the data key registry and of the explicit decryption.
Spec == Init /\ [][Next]_vars

\* The master key store on its own, over a key directory with artifacts.
SpecKeys == InitKeys /\ [][NextKeys]_vars

\* The resolver on its own, over all tenant identifiers.
SpecResolve == InitResolve /\ [][NextResolve]_vars

\* ------------------------------------------- concurrent callers of GetDek
\* Each caller runs GetDek(ctx, ConcProvider, _keyVaultNamespace) one system
\* call or vault round trip at a time; the steps of the callers interleave.
ConcProvider == CHOOSE p \in VaultProviders : TRUE
ConcFile == MasterKeyFile(ConcProvider)

\* The alternative a plausible slip produces: the key file is opened for
\* appending, so a write lands after what the file holds.
WriteAtStart_Append(content, b) == content \o b

\* file.Write(b) through a handle at offset 0 of a file holding content
WriteAtStart(content, b) == b \o SubSeq(content, Len(b) + 1, Len(content))

\* the caller is at pc and moves on to next
Goto(c, next) == [callers EXCEPT ![c].pc = next]

\* GetDek returns an error to caller c: main() ends with log.Fatalf
FailCall(c) == callers' = [callers EXCEPT ![c] = NoCall]

\* A run of main() starts (holding no dek, kmsProviders yet) and enters
\* utils.GetDek(ctx, providerName, _keyVaultNamespace); lines 34-37 read
\* MONGODB_URI
CallGetDek(c) ==
    /\ callers[c].pc = "idle"
    /\ IF uri = "" THEN FailCall(c)
       ELSE callers' = [callers EXCEPT ![c] = [NoCall EXCEPT !.pc = "stat"]]
    /\ UNCHANGED <<files, vault, uri, session, stored, ret, keyHistory, dekHistory,
                   overwritten, resolveVars>>

\* LoadOrCreateMasterKey lines 141-151: os.MkdirAll, os.Stat, and rand.Read
\* when the file does not exist
StatKeyFile(c) ==
    /\ callers[c].pc = "stat"
    /\ \E fault \in {"none", "mkdir", "stat", "rand"}, rnd \in RandKeys :
          IF fault \in {"mkdir", "stat"} THEN FailCall(c)
          ELSE IF ConcFile \in DOMAIN files THEN callers' = Goto(c, "read")
          ELSE IF fault = "rand" THEN FailCall(c)
          ELSE callers' = [callers EXCEPT ![c].pc = "create", ![c].key = rnd]
    /\ UNCHANGED <<files, vault, uri, session, stored, ret, keyHistory, dekHistory,
                   overwritten, resolveVars>>

\* LoadOrCreateMasterKey lines 153-157: os.Create creates or truncates
CreateKeyFile(c) ==
    /\ callers[c].pc = "create"
    /\ \E fails \in BOOLEAN :
          IF fails
          THEN FailCall(c) /\ UNCHANGED <<files, overwritten>>
          ELSE /\ files' = WithFile(files, ConcFile, <<>>)
               /\ overwritten' = (overwritten \/ ConcFile \in DOMAIN files)
               /\ callers' = Goto(c, "write")
    /\ UNCHANGED <<vault, uri, session, stored, ret, keyHistory, dekHistory, resolveVars>>

\* LoadOrCreateMasterKey lines 159-162 and 183: file.Write(key), return key
WriteKeyFile(c) ==
    /\ callers[c].pc = "write"
    /\ \E n \in PartialSizes \cup {keySize} :
          /\ files' = WithFile(files, ConcFile,
                               WriteAtStart(files[ConcFile], SubSeq(callers[c].key, 1, n)))
          /\ IF n < keySize THEN FailCall(c) ELSE callers' = Goto(c, "lookup")
    /\ UNCHANGED <<vault, uri, session, stored, ret, keyHistory, dekHistory,
                   overwritten, resolveVars>>

\* LoadOrCreateMasterKey lines 166-183: os.Open, file.Read, the size check
ReadKeyFile(c) ==
    /\ callers[c].pc = "read"
    /\ \E fault \in {"none", "open", "read"} :
          LET rd == FileRead(ZeroKey, files[ConcFile], fault = "read") IN
          IF fault = "open" \/ rd.err # "nil" \/ rd.n # keySize
          THEN FailCall(c)
          ELSE callers' = [callers EXCEPT ![c].pc = "lookup", ![c].key = rd.buf]
    /\ UNCHANGED <<files, vault, uri, session, stored, ret, keyHistory, dekHistory,
                   overwritten, resolveVars>>

\* GetDek returns (dataKey, kmsProviders, nil) to caller c
ReturnDek(c, id) ==
    callers' = [callers EXCEPT ![c] =
                   [pc |-> "idle", key |-> <<>>, dataKey |-> <<id>>,
                    kmsProviders |-> (ConcProvider :> [key |-> callers[c].key])]]

\* GetDek lines 46-74 and 83-96: the KMS providers map, mongo.Connect,
\* NewClientEncryption, GetKeyByAltName and the decoding of its result
LookupDek(c) ==
    /\ callers[c].pc = "lookup"
    /\ \E fault \in {"none", "connect", "clientenc", "lookup"},
          answer \in Answers(vault, KeyVaultNamespace, KeyAltName(ConcProvider)) :
          IF fault # "none" THEN FailCall(c)
          ELSE IF answer = <<>> THEN callers' = Goto(c, "createDek")
          ELSE IF answer[1].idType # "binary" THEN FailCall(c)
          ELSE ReturnDek(c, answer[1].id)
    /\ UNCHANGED <<files, vault, uri, session, stored, ret, keyHistory, dekHistory,
                   overwritten, resolveVars>>

\* GetDek lines 75-81: CreateDataKey under the caller's KMS providers.  A
\* vault with a unique index on keyAltNames refuses a second document with
\* the alternate name; one without it accepts it.
CreateDek(c) ==
    /\ callers[c].pc = "createDek"
    /\ LET kmsProviders == (ConcProvider :> [key |-> callers[c].key])
           keyAltName == KeyAltName(ConcProvider)
           doc == NewDataKey(vault, kmsProviders, ConcProvider, keyAltName)
           inserted == [vault EXCEPT ![KeyVaultNamespace] = @ \cup {doc}]
           taken == \E d \in vault[KeyVaultNamespace] : keyAltName \in d.keyAltNames
       IN \E fault \in {"none", "create", "createLost", "duplicate"} :
             IF fault = "create" \/ (fault = "duplicate" /\ taken)
             THEN FailCall(c) /\ UNCHANGED vault
             ELSE IF fault = "createLost"
             THEN FailCall(c) /\ vault' = inserted
             ELSE vault' = inserted /\ ReturnDek(c, doc.id)
    /\ UNCHANGED <<files, uri, session, stored, ret, keyHistory, dekHistory, overwritten,
                   resolveVars>>

\* caller c inserts a user with the dek, kmsProviders it holds
ConcEncrypt(c, v) ==
    /\ callers[c].pc = "idle" /\ callers[c].dataKey # <<>>
    /\ \E fails \in BOOLEAN :
        LET r == EncryptField(vault, callers[c].kmsProviders, callers[c].dataKey, v, fails) IN
        /\ stored' = IF r.err = "nil"
                     THEN [ok |-> TRUE, by |-> c, bin |-> r.bin, plain |-> v,
                           provider |-> ConcProvider]
                     ELSE stored
        /\ ret' = [NoRet EXCEPT !.op = "insertUser", !.caller = c, !.provider = ConcProvider,
                                !.ns = KeyVaultNamespace, !.plain = v, !.err = r.err]
    /\ UNCHANGED <<files, vault, uri, session, keyHistory, dekHistory, resolveVars, concVars>>

\* caller c decrypts the stored value with the kmsProviders it holds
ConcDecrypt(c) ==
    /\ callers[c].pc = "idle" /\ callers[c].dataKey # <<>>
    /\ stored.ok
    /\ \E dfault \in DecryptFaults :
        LET r == decryptBinaryValue(vault, callers[c].kmsProviders, stored.bin, dfault) IN
        ret' = [NoRet EXCEPT !.op = "decryptBinaryValue", !.caller = c,
                             !.provider = ConcProvider, !.ns = KeyVaultNamespace,
                             !.kmsProviders = callers[c].kmsProviders,
                             !.fault = dfault, !.input = stored.bin, !.plain = stored.plain,
                             !.err = r.err, !.effects = r.effects, !.value = r.value]
    /\ UNCHANGED <<files, vault, uri, session, stored, keyHistory, dekHistory, resolveVars,
                   concVars>>

NextConc ==
    \E c \in Callers :
        \/ CallGetDek(c)
        \/ StatKeyFile(c)
        \/ CreateKeyFile(c)
        \/ WriteKeyFile(c)
        \/ ReadKeyFile(c)
        \/ LookupDek(c)
        \/ CreateDek(c)
        \/ \E v \in Plaintexts : ConcEncrypt(c, v)
        \/ ConcDecrypt(c)

\* Callers that run GetDek for one provider at the same time.
SpecConc == Init /\ [][NextConc]_vars

\* ------------------------------------------------------------------ claims
\* i is the (1-based) place of the last "/" of t
IsLastSeparator(t, i) ==
    /\ t[i] = "/"
    /\ \A j \in (i + 1)..Len(t) : t[j] # "/"

\* t has a "/" at a (0-based) position greater than zero that is its last
\* one and is followed by a non-empty segment
ValidTenantId(t) == \E i \in 2..(Len(t) - 1) : IsLastSeparator(t, i)

\* the longest suffix of t without a "/"
TrailingSegment(t) ==
    LET n == CHOOSE n \in 0..Len(t) :
                 /\ \A j \in (Len(t) - n + 1)..Len(t) : t[j] # "/"
                 /\ n = Len(t) \/ t[Len(t) - n] = "/"
    IN SubSeq(t, Len(t) - n + 1, Len(t))

Local10 == <<"l", "o", "c", "a", "l", ":", "1", "0">>

\* C1: sequential LoadOrCreateMasterKey calls for a provider whose key file
\* the first call created all return the same 96-byte key, the content of
\* the key file, and no call changes the stored key.
C1_LoadIsIdempotent ==
    \A p \in Providers :
        keyHistory[p].created =>
            /\ MasterKeyFile(p) \in DOMAIN files
            /\ Len(files[MasterKeyFile(p)]) = keySize
            /\ keyHistory[p].keys = {files[MasterKeyFile(p)]}

\* C1 witness: a key file was created by one call and loaded by a later one.
C1_Witness ==
    \E p \in Providers : keyHistory[p].created /\ keyHistory[p].reloaded

\* C2: successive successful GetDek calls for a provider and namespace
\* return one identifier; the vault holds at most one data key per alternate
\* name, and a call after a successful one finds it and creates nothing.
C2_GetDekIsIdempotent ==
    /\ \A ns \in Namespaces, p \in Providers :
          /\ Cardinality(dekHistory[<<ns, p>>]) <= 1
          /\ Cardinality({d \in vault[ns] : KeyAltName(p) \in d.keyAltNames}) <= 1
    /\ (ret.op = "GetDek" /\ ret.err = "nil" /\ ret.again)
          => (ret.lookup = "found" /\ ~ret.createRequested
              /\ ret.dataKey[1] \in dekHistory[<<ret.ns, ret.provider>>])

\* C2 witness: a second successful GetDek call has found the data key.
C2_Witness ==
    ret.op = "GetDek" /\ ret.err = "nil" /\ ret.again /\ ret.lookup = "found"

\* C3: GetDek requests the creation of a data key, and changes the vault,
\* only when the lookup by alternate name answered "no documents"; a failed
\* lookup is returned to the caller as an error.
C3_CreateOnlyWhenNotFound ==
    [][ret'.op = "GetDek" =>
          LET hadDoc == \E d \in vault[ret'.ns] : KeyAltName(ret'.provider) \in d.keyAltNames
              lookupFailed == ret'.fault = "lookup"
          IN /\ (ret'.createRequested \/ vault' # vault) => (~hadDoc /\ ~lookupFailed)
             /\ lookupFailed => (ret'.err # "nil" /\ ret'.dataKey = <<>>)
             /\ ret'.lookup = "error" => ret'.err = "failed to decode DEK lookup result"
             /\ ret'.lookup = "found" => (vault' = vault /\ ~ret'.createRequested)]_vars

\* C3 witness: the lookup failed while the vault held no data key for the
\* provider, and none was created.
C3_Witness ==
    /\ ret.op = "GetDek" /\ ret.lookup = "error" /\ ret.err # "nil"
    /\ vault[ret.ns] = {}

\* C4: a call that finds a key file of fewer than 96 bytes fails with the
\* incorrect-size error, returns no key and leaves the file as it is.
C4_ShortArtifactIsSizeMismatch ==
    [][\A p \in Providers :
          (/\ ret'.op = "LoadOrCreateMasterKey" /\ ret'.provider = p /\ ret'.fault = "none"
           /\ MasterKeyFile(p) \in DOMAIN files
           /\ Len(files[MasterKeyFile(p)]) < keySize)
          => (/\ ret'.err = "master key file has incorrect size"
              /\ ret'.key = <<>>
              /\ files' = files)]_vars

\* C5: a call that finds a key file succeeds only if the file holds exactly
\* 96 bytes; the key returned is the whole content of the file.
C5_ExactSizeOnly ==
    (ret.op = "LoadOrCreateMasterKey" /\ ret.err = "nil")
        => (/\ Len(files[MasterKeyFile(ret.provider)]) = keySize
            /\ ret.key = files[MasterKeyFile(ret.provider)])

\* C6: a tenant identifier whose last "/" is at a position greater than
\* zero and is followed by a non-empty segment resolves to "local:" followed
\* by that segment.
C6_ResolvesTrailingSegment ==
    lastResolve.called =>
        \A i \in 2..(Len(lastResolve.tenant) - 1) :
            IsLastSeparator(lastResolve.tenant, i) =>
                /\ lastResolve.err = "nil"
                /\ lastResolve.name =
                      LocalPrefix \o SubSeq(lastResolve.tenant, i + 1, Len(lastResolve.tenant))

\* C6 witness: "don:identity:dvrv-us-1:devo/10" was resolved to "local:10".
C6_Witness ==
    lastResolve.called /\ lastResolve.tenant = Don10 /\ lastResolve.name = Local10

\* C7: every invalid tenant identifier is rejected, and no provider name
\* with an empty segment is returned.
C7_InvalidIsRejected ==
    lastResolve.called =>
        /\ ~ValidTenantId(lastResolve.tenant) => lastResolve.err # "nil"
        /\ lastResolve.err = "nil" => Len(lastResolve.name) > Len(LocalPrefix)

\* C8: decryptBinaryValue of a value with empty data fails before any
\* encryption handle is created and before the vault or the KMS is reached.
C8_EmptyValueFailsEarly ==
    (ret.op = "decryptBinaryValue" /\ Len(ret.input.Data) = 0)
        => (/\ ret.err = "encrypted value is empty or nil"
            /\ ret.value = <<>>
            /\ ret.effects = {})

\* C8 witness: an empty value was given to decryptBinaryValue.
C8_Witness ==
    ret.op = "decryptBinaryValue" /\ ret.input = EmptyBinary /\ ret.err # "nil"

\* C9 as claimed: a value encrypted under the data key GetDek returned is
\* decrypted to the original plaintext with the KMS providers any GetDek
\* call for the provider returned.
C9_RoundTrip ==
    (ret.op = "decryptBinaryValue" /\ ret.input # EmptyBinary /\ ret.fault = "none")
        => (ret.err = "nil" /\ ret.value = <<ret.plain>>)

\* C9 as amended: the round trip holds as long as no caller has created the
\* key file over one that another caller had created (concurrent first use
\* of LoadOrCreateMasterKey).
C9_RoundTripWithoutKeyRace ==
    (/\ ret.op = "decryptBinaryValue" /\ ret.input # EmptyBinary /\ ret.fault = "none"
     /\ ~overwritten)
        => (ret.err = "nil" /\ ret.value = <<ret.plain>>)

\* C9 witness: without a key race, one caller has decrypted the value that
\* the other caller encrypted, with the KMS providers of its own GetDek call.
C9_Witness ==
    /\ ret.op = "decryptBinaryValue" /\ ret.err = "nil" /\ ret.value = <<stored.plain>>
    /\ stored.ok /\ ret.caller # stored.by /\ ~overwritten

\* C10 as claimed: two distinct valid tenant identifiers never resolve to
\* the same provider name, master key file or alternate name.
C10_DistinctTenantsDistinctProviders ==
    (/\ lastResolve.called /\ prevResolve.called
     /\ ValidTenantId(lastResolve.tenant) /\ ValidTenantId(prevResolve.tenant)
     /\ lastResolve.tenant # prevResolve.tenant)
        => (/\ lastResolve.name # prevResolve.name
            /\ MasterKeyFile(lastResolve.name) # MasterKeyFile(prevResolve.name)
            /\ KeyAltName(lastResolve.name) # KeyAltName(prevResolve.name))

\* C10 as amended: two tenant identifiers that resolve share the provider
\* name, and with it the master key file and the alternate name, exactly
\* when their trailing segments are equal.
C10_ProviderIsTrailingSegment ==
    (/\ lastResolve.called /\ prevResolve.called
     /\ lastResolve.err = "nil" /\ prevResolve.err = "nil")
        => LET same == TrailingSegment(lastResolve.tenant) = TrailingSegment(prevResolve.tenant)
           IN /\ (lastResolve.name = prevResolve.name) <=> same
              /\ (MasterKeyFile(lastResolve.name) = MasterKeyFile(prevResolve.name)) <=> same
              /\ (KeyAltName(lastResolve.name) = KeyAltName(prevResolve.name)) <=> same

\* C10 witness: two distinct identifiers with the trailing segment "10"
\* were resolved to one provider name.
C10_Witness ==
    /\ lastResolve.tenant = UsDevo10 /\ prevResolve.tenant = EuDevo10
    /\ lastResolve.name = Local10 /\ prevResolve.name = Local10

\* the data keys of the vault registered under the alternate name of p
DeksOf(p) == {d \in vault[KeyVaultNamespace] : KeyAltName(p) \in d.keyAltNames}

\* C11: under any interleaving of GetDek calls for one provider the vault
\* holds at most one data key with the alternate name "dek-" + provider, and
\* every dataKey a successful call returned is the identifier of that key.
C11_AtMostOneDekPerProvider ==
    /\ Cardinality(DeksOf(ConcProvider)) <= 1
    /\ \A c \in Callers :
          callers[c].dataKey # <<>> =>
              DeksOf(ConcProvider) = {d \in DeksOf(ConcProvider) : d.id = callers[c].dataKey[1]}

\* the master key caller c got from LoadOrCreateMasterKey, if it has one:
\* its local key after the return, later the key of its kmsProviders
HeldKey(c) ==
    IF callers[c].pc \in {"lookup", "createDek"} THEN <<callers[c].key>>
    ELSE IF callers[c].kmsProviders # <<>>
    THEN <<callers[c].kmsProviders[ConcProvider].key>>
    ELSE <<>>

\* C12: first use of LoadOrCreateMasterKey by two callers is a race between
\* the existence check and the creation.  A caller generates a key only
\* after it saw the file absent, and os.Create does not look again; a caller
\* whose write completes leaves exactly its own key in the file, whatever
\* was written before (last writer wins); a caller that reads the file while
\* it holds fewer than 96 bytes, as between os.Create and file.Write of
\* another caller, gets an error and no key; and callers hold different
\* keys only after one of them created the file over an existing one.
C12_FirstUseIsRacy ==
    [][/\ \A c \in Callers :
             /\ (callers[c].pc = "stat" /\ callers'[c].pc = "create")
                   => ConcFile \notin DOMAIN files
             /\ (callers[c].pc = "write" /\ callers'[c].pc = "lookup")
                   => files'[ConcFile] = callers'[c].key
             /\ (/\ callers[c].pc = "read" /\ callers'[c] # callers[c]
                 /\ Len(files[ConcFile]) < keySize)
                   => (callers'[c] = NoCall /\ files' = files)
       /\ (\E c, d \in Callers :
              HeldKey(c)' # <<>> /\ HeldKey(d)' # <<>> /\ HeldKey(c)' # HeldKey(d)')
             => overwritten']_vars

\* C12 witness: both callers generated a key and returned from
\* LoadOrCreateMasterKey with success, their keys differ, and the key file
\* holds the key of one of them only.
C12_Witness ==
    \E c, d \in Callers :
        /\ callers[c].pc = "lookup" /\ callers[d].pc = "lookup"
        /\ callers[c].key \in RandKeys /\ callers[d].key \in RandKeys
        /\ callers[c].key # callers[d].key
        /\ files[ConcFile] = callers[d].key
====
